---- MODULE Spec2Model ----
(***************************************************************************)
(* magnus, src/typed_value.rs: TypedValue, the strongly typed view of a    *)
(* Ruby VALUE, with the forward conversion TypedValue::from_value and the  *)
(* reverse conversion TypedValue::as_value.                                *)
(*                                                                         *)
(* The host (the Ruby VM) is the heap: for every heap object the type tag  *)
(* kept in its flags.  The three special constants false, nil and true are *)
(* immediates, they have no heap slot and their tag is fixed.              *)
(***************************************************************************)
EXTENDS Integers, Sequences, FiniteSets

(* Number of heap objects, beyond one object per heap tag, whose tag is    *)
(* chosen freely.                                                          *)
NumExtra == 0

(***************************************************************************)
(* rb_sys::ruby_value_type, as matched by from_value (one arm per member). *)
(***************************************************************************)
HeapTagSeq ==
    << "RUBY_T_NONE", "RUBY_T_OBJECT", "RUBY_T_CLASS", "RUBY_T_MODULE",
       "RUBY_T_FLOAT", "RUBY_T_STRING", "RUBY_T_REGEXP", "RUBY_T_ARRAY",
       "RUBY_T_HASH", "RUBY_T_STRUCT", "RUBY_T_BIGNUM", "RUBY_T_FILE",
       "RUBY_T_DATA", "RUBY_T_MATCH", "RUBY_T_COMPLEX", "RUBY_T_RATIONAL",
       "RUBY_T_SYMBOL", "RUBY_T_FIXNUM", "RUBY_T_UNDEF", "RUBY_T_IMEMO",
       "RUBY_T_NODE", "RUBY_T_ICLASS", "RUBY_T_ZOMBIE", "RUBY_T_MOVED",
       "RUBY_T_MASK" >>

HeapTags == { HeapTagSeq[i] : i \in 1..Len(HeapTagSeq) }

ConstTags == { "RUBY_T_NIL", "RUBY_T_TRUE", "RUBY_T_FALSE" }

ruby_value_type == HeapTags \cup ConstTags

(***************************************************************************)
(* Value: the untyped handle, a wrapper of the raw VALUE word.             *)
(***************************************************************************)
Qfalse == 0
Qnil == 4
Qtrue == 20

NumObjects == Len(HeapTagSeq) + NumExtra

(* The raw word of the i-th heap object: an aligned address above the      *)
(* special constants.                                                      *)
addr(i) == 8 * i + 32

HeapWords == { addr(i) : i \in 1..NumObjects }

Words == { Qfalse, Qnil, Qtrue } \cup HeapWords

Value == [ rb : Words ]

qfalse == [ rb |-> Qfalse ]
qnil == [ rb |-> Qnil ]
qtrue == [ rb |-> Qtrue ]

as_rb_value(val) == val.rb

(***************************************************************************)
(* The TypedValue enum: the cases, and the wrapper type each payload case  *)
(* carries.                                                                *)
(***************************************************************************)
WrapperOf ==
    [ Integer |-> "Integer", Float |-> "Float", Complex |-> "RComplex",
      Rational |-> "RRational", String |-> "RString", Symbol |-> "Symbol",
      Range |-> "Range", Array |-> "RArray", Hash |-> "RHash",
      Struct |-> "RStruct", TypedData |-> "RTypedData", Object |-> "RObject",
      Class |-> "RClass", Module |-> "RModule", File |-> "RFile",
      Match |-> "RMatch", Enumerator |-> "Enumerator", Regexp |-> "RRegexp" ]

WrapperCases == DOMAIN WrapperOf

UnitCases == { "True", "False", "Nil" }

Cases == WrapperCases \cup { "Value" } \cup UnitCases

(* T::from_rb_value_unchecked(rb_value): the wrapper of type T around the  *)
(* value with that raw word; no tag check.                                 *)
from_rb_value_unchecked(T, rb_value) == [ ty |-> T, value |-> [ rb |-> rb_value ] ]

(* ReprValue::as_value of a typed wrapper: the value it wraps.             *)
repr_as_value(w) == w.value

Self(c, p) == [ case |-> c, payload |-> <<p>> ]

SelfUnit(c) == [ case |-> c, payload |-> <<>> ]

TypedValue ==
    { Self(c, from_rb_value_unchecked(WrapperOf[c], r)) : c \in WrapperCases, r \in Words }
    \cup { Self("Value", v) : v \in Value }
    \cup { SelfUnit(c) : c \in UnitCases }

(***************************************************************************)
(* State.                                                                  *)
(*   flags    the host heap: the type tag in the flags of each heap object *)
(*   last     the last call made and its outcome                           *)
(*   unwound  whether some call so far has panicked                        *)
(***************************************************************************)
VARIABLES flags, last, unwound

vars == << flags, last, unwound >>

(* Value::rb_type: the special constants by their word, every other value  *)
(* by the tag in its heap flags.                                           *)
rb_type(val) ==
    CASE val.rb = Qfalse -> "RUBY_T_FALSE"
      [] val.rb = Qnil -> "RUBY_T_NIL"
      [] val.rb = Qtrue -> "RUBY_T_TRUE"
      [] OTHER -> flags[val.rb]

Return(tv) == [ panicked |-> FALSE, ret |-> <<tv>> ]

Panic == [ panicked |-> TRUE, ret |-> <<>> ]

(* from_value with the RUBY_T_ZOMBIE arm panicking like RUBY_T_NONE. *)
from_value_zombie_panics(val) ==
    LET rb_value == as_rb_value(val)
        ty == rb_type(val)
    IN  CASE ty = "RUBY_T_NONE" -> Panic
          [] ty = "RUBY_T_OBJECT" -> Return(Self("Object", from_rb_value_unchecked("RObject", rb_value)))
          [] ty = "RUBY_T_CLASS" -> Return(Self("Class", from_rb_value_unchecked("RClass", rb_value)))
          [] ty = "RUBY_T_MODULE" -> Return(Self("Module", from_rb_value_unchecked("RModule", rb_value)))
          [] ty = "RUBY_T_FLOAT" -> Return(Self("Float", from_rb_value_unchecked("Float", rb_value)))
          [] ty = "RUBY_T_STRING" -> Return(Self("String", from_rb_value_unchecked("RString", rb_value)))
          [] ty = "RUBY_T_REGEXP" -> Return(Self("Regexp", from_rb_value_unchecked("RRegexp", rb_value)))
          [] ty = "RUBY_T_ARRAY" -> Return(Self("Array", from_rb_value_unchecked("RArray", rb_value)))
          [] ty = "RUBY_T_HASH" -> Return(Self("Hash", from_rb_value_unchecked("RHash", rb_value)))
          [] ty = "RUBY_T_STRUCT" -> Return(Self("Struct", from_rb_value_unchecked("RStruct", rb_value)))
          [] ty = "RUBY_T_BIGNUM" -> Return(Self("Integer", from_rb_value_unchecked("Integer", rb_value)))
          [] ty = "RUBY_T_FILE" -> Return(Self("File", from_rb_value_unchecked("RFile", rb_value)))
          [] ty = "RUBY_T_DATA" -> Return(Self("TypedData", from_rb_value_unchecked("RTypedData", rb_value)))
          [] ty = "RUBY_T_MATCH" -> Return(Self("Match", from_rb_value_unchecked("RMatch", rb_value)))
          [] ty = "RUBY_T_COMPLEX" -> Return(Self("Complex", from_rb_value_unchecked("RComplex", rb_value)))
          [] ty = "RUBY_T_RATIONAL" -> Return(Self("Rational", from_rb_value_unchecked("RRational", rb_value)))
          [] ty = "RUBY_T_NIL" -> Return(SelfUnit("Nil"))
          [] ty = "RUBY_T_TRUE" -> Return(SelfUnit("True"))
          [] ty = "RUBY_T_FALSE" -> Return(SelfUnit("False"))
          [] ty = "RUBY_T_SYMBOL" -> Return(Self("Symbol", from_rb_value_unchecked("Symbol", rb_value)))
          [] ty = "RUBY_T_FIXNUM" -> Return(Self("Integer", from_rb_value_unchecked("Integer", rb_value)))
          [] ty = "RUBY_T_UNDEF" -> Return(Self("Value", val))
          [] ty = "RUBY_T_IMEMO" -> Return(Self("Value", val))
          [] ty = "RUBY_T_NODE" -> Return(Self("Value", val))
          [] ty = "RUBY_T_ICLASS" -> Return(Self("Value", val))
          [] ty = "RUBY_T_ZOMBIE" -> Panic
          [] ty = "RUBY_T_MOVED" -> Return(Self("Value", val))
          [] ty = "RUBY_T_MASK" -> Return(Self("Value", val))

(* from_value with the RUBY_T_REGEXP arm a copy of the RUBY_T_STRING arm. *)
from_value_regexp_as_string(val) ==
    LET rb_value == as_rb_value(val)
        ty == rb_type(val)
    IN  CASE ty = "RUBY_T_NONE" -> Panic
          [] ty = "RUBY_T_OBJECT" -> Return(Self("Object", from_rb_value_unchecked("RObject", rb_value)))
          [] ty = "RUBY_T_CLASS" -> Return(Self("Class", from_rb_value_unchecked("RClass", rb_value)))
          [] ty = "RUBY_T_MODULE" -> Return(Self("Module", from_rb_value_unchecked("RModule", rb_value)))
          [] ty = "RUBY_T_FLOAT" -> Return(Self("Float", from_rb_value_unchecked("Float", rb_value)))
          [] ty = "RUBY_T_STRING" -> Return(Self("String", from_rb_value_unchecked("RString", rb_value)))
          [] ty = "RUBY_T_REGEXP" -> Return(Self("String", from_rb_value_unchecked("RString", rb_value)))
          [] ty = "RUBY_T_ARRAY" -> Return(Self("Array", from_rb_value_unchecked("RArray", rb_value)))
          [] ty = "RUBY_T_HASH" -> Return(Self("Hash", from_rb_value_unchecked("RHash", rb_value)))
          [] ty = "RUBY_T_STRUCT" -> Return(Self("Struct", from_rb_value_unchecked("RStruct", rb_value)))
          [] ty = "RUBY_T_BIGNUM" -> Return(Self("Integer", from_rb_value_unchecked("Integer", rb_value)))
          [] ty = "RUBY_T_FILE" -> Return(Self("File", from_rb_value_unchecked("RFile", rb_value)))
          [] ty = "RUBY_T_DATA" -> Return(Self("TypedData", from_rb_value_unchecked("RTypedData", rb_value)))
          [] ty = "RUBY_T_MATCH" -> Return(Self("Match", from_rb_value_unchecked("RMatch", rb_value)))
          [] ty = "RUBY_T_COMPLEX" -> Return(Self("Complex", from_rb_value_unchecked("RComplex", rb_value)))
          [] ty = "RUBY_T_RATIONAL" -> Return(Self("Rational", from_rb_value_unchecked("RRational", rb_value)))
          [] ty = "RUBY_T_NIL" -> Return(SelfUnit("Nil"))
          [] ty = "RUBY_T_TRUE" -> Return(SelfUnit("True"))
          [] ty = "RUBY_T_FALSE" -> Return(SelfUnit("False"))
          [] ty = "RUBY_T_SYMBOL" -> Return(Self("Symbol", from_rb_value_unchecked("Symbol", rb_value)))
          [] ty = "RUBY_T_FIXNUM" -> Return(Self("Integer", from_rb_value_unchecked("Integer", rb_value)))
          [] ty = "RUBY_T_UNDEF" -> Return(Self("Value", val))
          [] ty = "RUBY_T_IMEMO" -> Return(Self("Value", val))
          [] ty = "RUBY_T_NODE" -> Return(Self("Value", val))
          [] ty = "RUBY_T_ICLASS" -> Return(Self("Value", val))
          [] ty = "RUBY_T_ZOMBIE" -> Return(Self("Value", val))
          [] ty = "RUBY_T_MOVED" -> Return(Self("Value", val))
          [] ty = "RUBY_T_MASK" -> Return(Self("Value", val))

(* from_value with the RUBY_T_TRUE and RUBY_T_FALSE arms swapped. *)
from_value_true_false_swapped(val) ==
    LET rb_value == as_rb_value(val)
        ty == rb_type(val)
    IN  CASE ty = "RUBY_T_NONE" -> Panic
          [] ty = "RUBY_T_OBJECT" -> Return(Self("Object", from_rb_value_unchecked("RObject", rb_value)))
          [] ty = "RUBY_T_CLASS" -> Return(Self("Class", from_rb_value_unchecked("RClass", rb_value)))
          [] ty = "RUBY_T_MODULE" -> Return(Self("Module", from_rb_value_unchecked("RModule", rb_value)))
          [] ty = "RUBY_T_FLOAT" -> Return(Self("Float", from_rb_value_unchecked("Float", rb_value)))
          [] ty = "RUBY_T_STRING" -> Return(Self("String", from_rb_value_unchecked("RString", rb_value)))
          [] ty = "RUBY_T_REGEXP" -> Return(Self("Regexp", from_rb_value_unchecked("RRegexp", rb_value)))
          [] ty = "RUBY_T_ARRAY" -> Return(Self("Array", from_rb_value_unchecked("RArray", rb_value)))
          [] ty = "RUBY_T_HASH" -> Return(Self("Hash", from_rb_value_unchecked("RHash", rb_value)))
          [] ty = "RUBY_T_STRUCT" -> Return(Self("Struct", from_rb_value_unchecked("RStruct", rb_value)))
          [] ty = "RUBY_T_BIGNUM" -> Return(Self("Integer", from_rb_value_unchecked("Integer", rb_value)))
          [] ty = "RUBY_T_FILE" -> Return(Self("File", from_rb_value_unchecked("RFile", rb_value)))
          [] ty = "RUBY_T_DATA" -> Return(Self("TypedData", from_rb_value_unchecked("RTypedData", rb_value)))
          [] ty = "RUBY_T_MATCH" -> Return(Self("Match", from_rb_value_unchecked("RMatch", rb_value)))
          [] ty = "RUBY_T_COMPLEX" -> Return(Self("Complex", from_rb_value_unchecked("RComplex", rb_value)))
          [] ty = "RUBY_T_RATIONAL" -> Return(Self("Rational", from_rb_value_unchecked("RRational", rb_value)))
          [] ty = "RUBY_T_NIL" -> Return(SelfUnit("Nil"))
          [] ty = "RUBY_T_TRUE" -> Return(SelfUnit("False"))
          [] ty = "RUBY_T_FALSE" -> Return(SelfUnit("True"))
          [] ty = "RUBY_T_SYMBOL" -> Return(Self("Symbol", from_rb_value_unchecked("Symbol", rb_value)))
          [] ty = "RUBY_T_FIXNUM" -> Return(Self("Integer", from_rb_value_unchecked("Integer", rb_value)))
          [] ty = "RUBY_T_UNDEF" -> Return(Self("Value", val))
          [] ty = "RUBY_T_IMEMO" -> Return(Self("Value", val))
          [] ty = "RUBY_T_NODE" -> Return(Self("Value", val))
          [] ty = "RUBY_T_ICLASS" -> Return(Self("Value", val))
          [] ty = "RUBY_T_ZOMBIE" -> Return(Self("Value", val))
          [] ty = "RUBY_T_MOVED" -> Return(Self("Value", val))
          [] ty = "RUBY_T_MASK" -> Return(Self("Value", val))

(* from_value with a case of its own, Undef, for RUBY_T_UNDEF. *)
from_value_undef_case(val) ==
    LET rb_value == as_rb_value(val)
        ty == rb_type(val)
    IN  CASE ty = "RUBY_T_NONE" -> Panic
          [] ty = "RUBY_T_OBJECT" -> Return(Self("Object", from_rb_value_unchecked("RObject", rb_value)))
          [] ty = "RUBY_T_CLASS" -> Return(Self("Class", from_rb_value_unchecked("RClass", rb_value)))
          [] ty = "RUBY_T_MODULE" -> Return(Self("Module", from_rb_value_unchecked("RModule", rb_value)))
          [] ty = "RUBY_T_FLOAT" -> Return(Self("Float", from_rb_value_unchecked("Float", rb_value)))
          [] ty = "RUBY_T_STRING" -> Return(Self("String", from_rb_value_unchecked("RString", rb_value)))
          [] ty = "RUBY_T_REGEXP" -> Return(Self("Regexp", from_rb_value_unchecked("RRegexp", rb_value)))
          [] ty = "RUBY_T_ARRAY" -> Return(Self("Array", from_rb_value_unchecked("RArray", rb_value)))
          [] ty = "RUBY_T_HASH" -> Return(Self("Hash", from_rb_value_unchecked("RHash", rb_value)))
          [] ty = "RUBY_T_STRUCT" -> Return(Self("Struct", from_rb_value_unchecked("RStruct", rb_value)))
          [] ty = "RUBY_T_BIGNUM" -> Return(Self("Integer", from_rb_value_unchecked("Integer", rb_value)))
          [] ty = "RUBY_T_FILE" -> Return(Self("File", from_rb_value_unchecked("RFile", rb_value)))
          [] ty = "RUBY_T_DATA" -> Return(Self("TypedData", from_rb_value_unchecked("RTypedData", rb_value)))
          [] ty = "RUBY_T_MATCH" -> Return(Self("Match", from_rb_value_unchecked("RMatch", rb_value)))
          [] ty = "RUBY_T_COMPLEX" -> Return(Self("Complex", from_rb_value_unchecked("RComplex", rb_value)))
          [] ty = "RUBY_T_RATIONAL" -> Return(Self("Rational", from_rb_value_unchecked("RRational", rb_value)))
          [] ty = "RUBY_T_NIL" -> Return(SelfUnit("Nil"))
          [] ty = "RUBY_T_TRUE" -> Return(SelfUnit("True"))
          [] ty = "RUBY_T_FALSE" -> Return(SelfUnit("False"))
          [] ty = "RUBY_T_SYMBOL" -> Return(Self("Symbol", from_rb_value_unchecked("Symbol", rb_value)))
          [] ty = "RUBY_T_FIXNUM" -> Return(Self("Integer", from_rb_value_unchecked("Integer", rb_value)))
          [] ty = "RUBY_T_UNDEF" -> Return(SelfUnit("Undef"))
          [] ty = "RUBY_T_IMEMO" -> Return(Self("Value", val))
          [] ty = "RUBY_T_NODE" -> Return(Self("Value", val))
          [] ty = "RUBY_T_ICLASS" -> Return(Self("Value", val))
          [] ty = "RUBY_T_ZOMBIE" -> Return(Self("Value", val))
          [] ty = "RUBY_T_MOVED" -> Return(Self("Value", val))
          [] ty = "RUBY_T_MASK" -> Return(Self("Value", val))

(* from_value with RUBY_T_BIGNUM left to the catch-all case. *)
from_value_bignum_value(val) ==
    LET rb_value == as_rb_value(val)
        ty == rb_type(val)
    IN  CASE ty = "RUBY_T_NONE" -> Panic
          [] ty = "RUBY_T_OBJECT" -> Return(Self("Object", from_rb_value_unchecked("RObject", rb_value)))
          [] ty = "RUBY_T_CLASS" -> Return(Self("Class", from_rb_value_unchecked("RClass", rb_value)))
          [] ty = "RUBY_T_MODULE" -> Return(Self("Module", from_rb_value_unchecked("RModule", rb_value)))
          [] ty = "RUBY_T_FLOAT" -> Return(Self("Float", from_rb_value_unchecked("Float", rb_value)))
          [] ty = "RUBY_T_STRING" -> Return(Self("String", from_rb_value_unchecked("RString", rb_value)))
          [] ty = "RUBY_T_REGEXP" -> Return(Self("Regexp", from_rb_value_unchecked("RRegexp", rb_value)))
          [] ty = "RUBY_T_ARRAY" -> Return(Self("Array", from_rb_value_unchecked("RArray", rb_value)))
          [] ty = "RUBY_T_HASH" -> Return(Self("Hash", from_rb_value_unchecked("RHash", rb_value)))
          [] ty = "RUBY_T_STRUCT" -> Return(Self("Struct", from_rb_value_unchecked("RStruct", rb_value)))
          [] ty = "RUBY_T_BIGNUM" -> Return(Self("Value", val))
          [] ty = "RUBY_T_FILE" -> Return(Self("File", from_rb_value_unchecked("RFile", rb_value)))
          [] ty = "RUBY_T_DATA" -> Return(Self("TypedData", from_rb_value_unchecked("RTypedData", rb_value)))
          [] ty = "RUBY_T_MATCH" -> Return(Self("Match", from_rb_value_unchecked("RMatch", rb_value)))
          [] ty = "RUBY_T_COMPLEX" -> Return(Self("Complex", from_rb_value_unchecked("RComplex", rb_value)))
          [] ty = "RUBY_T_RATIONAL" -> Return(Self("Rational", from_rb_value_unchecked("RRational", rb_value)))
          [] ty = "RUBY_T_NIL" -> Return(SelfUnit("Nil"))
          [] ty = "RUBY_T_TRUE" -> Return(SelfUnit("True"))
          [] ty = "RUBY_T_FALSE" -> Return(SelfUnit("False"))
          [] ty = "RUBY_T_SYMBOL" -> Return(Self("Symbol", from_rb_value_unchecked("Symbol", rb_value)))
          [] ty = "RUBY_T_FIXNUM" -> Return(Self("Integer", from_rb_value_unchecked("Integer", rb_value)))
          [] ty = "RUBY_T_UNDEF" -> Return(Self("Value", val))
          [] ty = "RUBY_T_IMEMO" -> Return(Self("Value", val))
          [] ty = "RUBY_T_NODE" -> Return(Self("Value", val))
          [] ty = "RUBY_T_ICLASS" -> Return(Self("Value", val))
          [] ty = "RUBY_T_ZOMBIE" -> Return(Self("Value", val))
          [] ty = "RUBY_T_MOVED" -> Return(Self("Value", val))
          [] ty = "RUBY_T_MASK" -> Return(Self("Value", val))

(* from_value with the RUBY_T_MASK arm unreachable!(). *)
from_value_mask_panics(val) ==
    LET rb_value == as_rb_value(val)
        ty == rb_type(val)
    IN  CASE ty = "RUBY_T_NONE" -> Panic
          [] ty = "RUBY_T_OBJECT" -> Return(Self("Object", from_rb_value_unchecked("RObject", rb_value)))
          [] ty = "RUBY_T_CLASS" -> Return(Self("Class", from_rb_value_unchecked("RClass", rb_value)))
          [] ty = "RUBY_T_MODULE" -> Return(Self("Module", from_rb_value_unchecked("RModule", rb_value)))
          [] ty = "RUBY_T_FLOAT" -> Return(Self("Float", from_rb_value_unchecked("Float", rb_value)))
          [] ty = "RUBY_T_STRING" -> Return(Self("String", from_rb_value_unchecked("RString", rb_value)))
          [] ty = "RUBY_T_REGEXP" -> Return(Self("Regexp", from_rb_value_unchecked("RRegexp", rb_value)))
          [] ty = "RUBY_T_ARRAY" -> Return(Self("Array", from_rb_value_unchecked("RArray", rb_value)))
          [] ty = "RUBY_T_HASH" -> Return(Self("Hash", from_rb_value_unchecked("RHash", rb_value)))
          [] ty = "RUBY_T_STRUCT" -> Return(Self("Struct", from_rb_value_unchecked("RStruct", rb_value)))
          [] ty = "RUBY_T_BIGNUM" -> Return(Self("Integer", from_rb_value_unchecked("Integer", rb_value)))
          [] ty = "RUBY_T_FILE" -> Return(Self("File", from_rb_value_unchecked("RFile", rb_value)))
          [] ty = "RUBY_T_DATA" -> Return(Self("TypedData", from_rb_value_unchecked("RTypedData", rb_value)))
          [] ty = "RUBY_T_MATCH" -> Return(Self("Match", from_rb_value_unchecked("RMatch", rb_value)))
          [] ty = "RUBY_T_COMPLEX" -> Return(Self("Complex", from_rb_value_unchecked("RComplex", rb_value)))
          [] ty = "RUBY_T_RATIONAL" -> Return(Self("Rational", from_rb_value_unchecked("RRational", rb_value)))
          [] ty = "RUBY_T_NIL" -> Return(SelfUnit("Nil"))
          [] ty = "RUBY_T_TRUE" -> Return(SelfUnit("True"))
          [] ty = "RUBY_T_FALSE" -> Return(SelfUnit("False"))
          [] ty = "RUBY_T_SYMBOL" -> Return(Self("Symbol", from_rb_value_unchecked("Symbol", rb_value)))
          [] ty = "RUBY_T_FIXNUM" -> Return(Self("Integer", from_rb_value_unchecked("Integer", rb_value)))
          [] ty = "RUBY_T_UNDEF" -> Return(Self("Value", val))
          [] ty = "RUBY_T_IMEMO" -> Return(Self("Value", val))
          [] ty = "RUBY_T_NODE" -> Return(Self("Value", val))
          [] ty = "RUBY_T_ICLASS" -> Return(Self("Value", val))
          [] ty = "RUBY_T_ZOMBIE" -> Return(Self("Value", val))
          [] ty = "RUBY_T_MOVED" -> Return(Self("Value", val))
          [] ty = "RUBY_T_MASK" -> Panic

(* from_value with RUBY_T_STRUCT classified as Range. *)
from_value_struct_as_range(val) ==
    LET rb_value == as_rb_value(val)
        ty == rb_type(val)
    IN  CASE ty = "RUBY_T_NONE" -> Panic
          [] ty = "RUBY_T_OBJECT" -> Return(Self("Object", from_rb_value_unchecked("RObject", rb_value)))
          [] ty = "RUBY_T_CLASS" -> Return(Self("Class", from_rb_value_unchecked("RClass", rb_value)))
          [] ty = "RUBY_T_MODULE" -> Return(Self("Module", from_rb_value_unchecked("RModule", rb_value)))
          [] ty = "RUBY_T_FLOAT" -> Return(Self("Float", from_rb_value_unchecked("Float", rb_value)))
          [] ty = "RUBY_T_STRING" -> Return(Self("String", from_rb_value_unchecked("RString", rb_value)))
          [] ty = "RUBY_T_REGEXP" -> Return(Self("Regexp", from_rb_value_unchecked("RRegexp", rb_value)))
          [] ty = "RUBY_T_ARRAY" -> Return(Self("Array", from_rb_value_unchecked("RArray", rb_value)))
          [] ty = "RUBY_T_HASH" -> Return(Self("Hash", from_rb_value_unchecked("RHash", rb_value)))
          [] ty = "RUBY_T_STRUCT" -> Return(Self("Range", from_rb_value_unchecked("Range", rb_value)))
          [] ty = "RUBY_T_BIGNUM" -> Return(Self("Integer", from_rb_value_unchecked("Integer", rb_value)))
          [] ty = "RUBY_T_FILE" -> Return(Self("File", from_rb_value_unchecked("RFile", rb_value)))
          [] ty = "RUBY_T_DATA" -> Return(Self("TypedData", from_rb_value_unchecked("RTypedData", rb_value)))
          [] ty = "RUBY_T_MATCH" -> Return(Self("Match", from_rb_value_unchecked("RMatch", rb_value)))
          [] ty = "RUBY_T_COMPLEX" -> Return(Self("Complex", from_rb_value_unchecked("RComplex", rb_value)))
          [] ty = "RUBY_T_RATIONAL" -> Return(Self("Rational", from_rb_value_unchecked("RRational", rb_value)))
          [] ty = "RUBY_T_NIL" -> Return(SelfUnit("Nil"))
          [] ty = "RUBY_T_TRUE" -> Return(SelfUnit("True"))
          [] ty = "RUBY_T_FALSE" -> Return(SelfUnit("False"))
          [] ty = "RUBY_T_SYMBOL" -> Return(Self("Symbol", from_rb_value_unchecked("Symbol", rb_value)))
          [] ty = "RUBY_T_FIXNUM" -> Return(Self("Integer", from_rb_value_unchecked("Integer", rb_value)))
          [] ty = "RUBY_T_UNDEF" -> Return(Self("Value", val))
          [] ty = "RUBY_T_IMEMO" -> Return(Self("Value", val))
          [] ty = "RUBY_T_NODE" -> Return(Self("Value", val))
          [] ty = "RUBY_T_ICLASS" -> Return(Self("Value", val))
          [] ty = "RUBY_T_ZOMBIE" -> Return(Self("Value", val))
          [] ty = "RUBY_T_MOVED" -> Return(Self("Value", val))
          [] ty = "RUBY_T_MASK" -> Return(Self("Value", val))

from_value(val) ==
    LET rb_value == as_rb_value(val)
        ty == rb_type(val)
    IN  CASE ty = "RUBY_T_NONE" -> Panic
          [] ty = "RUBY_T_OBJECT" -> Return(Self("Object", from_rb_value_unchecked("RObject", rb_value)))
          [] ty = "RUBY_T_CLASS" -> Return(Self("Class", from_rb_value_unchecked("RClass", rb_value)))
          [] ty = "RUBY_T_MODULE" -> Return(Self("Module", from_rb_value_unchecked("RModule", rb_value)))
          [] ty = "RUBY_T_FLOAT" -> Return(Self("Float", from_rb_value_unchecked("Float", rb_value)))
          [] ty = "RUBY_T_STRING" -> Return(Self("String", from_rb_value_unchecked("RString", rb_value)))
          [] ty = "RUBY_T_REGEXP" -> Return(Self("Regexp", from_rb_value_unchecked("RRegexp", rb_value)))
          [] ty = "RUBY_T_ARRAY" -> Return(Self("Array", from_rb_value_unchecked("RArray", rb_value)))
          [] ty = "RUBY_T_HASH" -> Return(Self("Hash", from_rb_value_unchecked("RHash", rb_value)))
          [] ty = "RUBY_T_STRUCT" -> Return(Self("Struct", from_rb_value_unchecked("RStruct", rb_value)))
          [] ty = "RUBY_T_BIGNUM" -> Return(Self("Integer", from_rb_value_unchecked("Integer", rb_value)))
          [] ty = "RUBY_T_FILE" -> Return(Self("File", from_rb_value_unchecked("RFile", rb_value)))
          [] ty = "RUBY_T_DATA" -> Return(Self("TypedData", from_rb_value_unchecked("RTypedData", rb_value)))
          [] ty = "RUBY_T_MATCH" -> Return(Self("Match", from_rb_value_unchecked("RMatch", rb_value)))
          [] ty = "RUBY_T_COMPLEX" -> Return(Self("Complex", from_rb_value_unchecked("RComplex", rb_value)))
          [] ty = "RUBY_T_RATIONAL" -> Return(Self("Rational", from_rb_value_unchecked("RRational", rb_value)))
          [] ty = "RUBY_T_NIL" -> Return(SelfUnit("Nil"))
          [] ty = "RUBY_T_TRUE" -> Return(SelfUnit("True"))
          [] ty = "RUBY_T_FALSE" -> Return(SelfUnit("False"))
          [] ty = "RUBY_T_SYMBOL" -> Return(Self("Symbol", from_rb_value_unchecked("Symbol", rb_value)))
          [] ty = "RUBY_T_FIXNUM" -> Return(Self("Integer", from_rb_value_unchecked("Integer", rb_value)))
          [] ty = "RUBY_T_UNDEF" -> Return(Self("Value", val))
          [] ty = "RUBY_T_IMEMO" -> Return(Self("Value", val))
          [] ty = "RUBY_T_NODE" -> Return(Self("Value", val))
          [] ty = "RUBY_T_ICLASS" -> Return(Self("Value", val))
          [] ty = "RUBY_T_ZOMBIE" -> Return(Self("Value", val))
          [] ty = "RUBY_T_MOVED" -> Return(Self("Value", val))
          [] ty = "RUBY_T_MASK" -> Return(Self("Value", val))

(* as_value with the False arm returning qnil(). *)
as_value_false_is_nil(self) ==
    CASE self.case = "Integer" -> repr_as_value(self.payload[1])
      [] self.case = "Float" -> repr_as_value(self.payload[1])
      [] self.case = "Complex" -> repr_as_value(self.payload[1])
      [] self.case = "Rational" -> repr_as_value(self.payload[1])
      [] self.case = "String" -> repr_as_value(self.payload[1])
      [] self.case = "Symbol" -> repr_as_value(self.payload[1])
      [] self.case = "Range" -> repr_as_value(self.payload[1])
      [] self.case = "Array" -> repr_as_value(self.payload[1])
      [] self.case = "Hash" -> repr_as_value(self.payload[1])
      [] self.case = "Struct" -> repr_as_value(self.payload[1])
      [] self.case = "TypedData" -> repr_as_value(self.payload[1])
      [] self.case = "Object" -> repr_as_value(self.payload[1])
      [] self.case = "Class" -> repr_as_value(self.payload[1])
      [] self.case = "Module" -> repr_as_value(self.payload[1])
      [] self.case = "File" -> repr_as_value(self.payload[1])
      [] self.case = "Match" -> repr_as_value(self.payload[1])
      [] self.case = "Enumerator" -> repr_as_value(self.payload[1])
      [] self.case = "Regexp" -> repr_as_value(self.payload[1])
      [] self.case = "Value" -> self.payload[1]
      [] self.case = "True" -> qtrue
      [] self.case = "False" -> qnil
      [] self.case = "Nil" -> qnil

(* as_value with the Enumerator arm returning qnil(). *)
as_value_enumerator_nil(self) ==
    CASE self.case = "Integer" -> repr_as_value(self.payload[1])
      [] self.case = "Float" -> repr_as_value(self.payload[1])
      [] self.case = "Complex" -> repr_as_value(self.payload[1])
      [] self.case = "Rational" -> repr_as_value(self.payload[1])
      [] self.case = "String" -> repr_as_value(self.payload[1])
      [] self.case = "Symbol" -> repr_as_value(self.payload[1])
      [] self.case = "Range" -> repr_as_value(self.payload[1])
      [] self.case = "Array" -> repr_as_value(self.payload[1])
      [] self.case = "Hash" -> repr_as_value(self.payload[1])
      [] self.case = "Struct" -> repr_as_value(self.payload[1])
      [] self.case = "TypedData" -> repr_as_value(self.payload[1])
      [] self.case = "Object" -> repr_as_value(self.payload[1])
      [] self.case = "Class" -> repr_as_value(self.payload[1])
      [] self.case = "Module" -> repr_as_value(self.payload[1])
      [] self.case = "File" -> repr_as_value(self.payload[1])
      [] self.case = "Match" -> repr_as_value(self.payload[1])
      [] self.case = "Enumerator" -> qnil
      [] self.case = "Regexp" -> repr_as_value(self.payload[1])
      [] self.case = "Value" -> self.payload[1]
      [] self.case = "True" -> qtrue
      [] self.case = "False" -> qfalse
      [] self.case = "Nil" -> qnil

as_value(self) ==
    CASE self.case = "Integer" -> repr_as_value(self.payload[1])
      [] self.case = "Float" -> repr_as_value(self.payload[1])
      [] self.case = "Complex" -> repr_as_value(self.payload[1])
      [] self.case = "Rational" -> repr_as_value(self.payload[1])
      [] self.case = "String" -> repr_as_value(self.payload[1])
      [] self.case = "Symbol" -> repr_as_value(self.payload[1])
      [] self.case = "Range" -> repr_as_value(self.payload[1])
      [] self.case = "Array" -> repr_as_value(self.payload[1])
      [] self.case = "Hash" -> repr_as_value(self.payload[1])
      [] self.case = "Struct" -> repr_as_value(self.payload[1])
      [] self.case = "TypedData" -> repr_as_value(self.payload[1])
      [] self.case = "Object" -> repr_as_value(self.payload[1])
      [] self.case = "Class" -> repr_as_value(self.payload[1])
      [] self.case = "Module" -> repr_as_value(self.payload[1])
      [] self.case = "File" -> repr_as_value(self.payload[1])
      [] self.case = "Match" -> repr_as_value(self.payload[1])
      [] self.case = "Enumerator" -> repr_as_value(self.payload[1])
      [] self.case = "Regexp" -> repr_as_value(self.payload[1])
      [] self.case = "Value" -> self.payload[1]
      [] self.case = "True" -> qtrue
      [] self.case = "False" -> qfalse
      [] self.case = "Nil" -> qnil

(***************************************************************************)
(* The heaps the host can present: one object of every heap tag, and       *)
(* NumExtra more objects of any heap tag.                                  *)
(***************************************************************************)
Heaps ==
    { [ w \in HeapWords |->
          LET i == (w - 32) \div 8
          IN  IF i <= Len(HeapTagSeq) THEN HeapTagSeq[i] ELSE extra[i - Len(HeapTagSeq)] ] :
        extra \in [ 1..NumExtra -> HeapTags ] }

NoCall ==
    [ op |-> "none", val |-> <<>>, tv |-> <<>>, panicked |-> FALSE,
      ret_tv |-> <<>>, ret_val |-> <<>> ]

Init ==
    /\ flags \in Heaps
    /\ last = NoCall
    /\ unwound = FALSE

(* A from_value call that leaves a mark in the flags of the heap object it  *)
(* classified.                                                             *)
FromValue_marks(val) ==
    LET r == from_value(val)
    IN  /\ last' = [ op |-> "from_value", val |-> <<val>>, tv |-> <<>>,
                     panicked |-> r.panicked, ret_tv |-> r.ret, ret_val |-> <<>> ]
        /\ unwound' = (unwound \/ r.panicked)
        /\ flags' = IF val.rb \in DOMAIN flags
                       THEN [ flags EXCEPT ![val.rb] = "RUBY_T_MOVED" ]
                       ELSE flags

(* A call TypedValue::from_value(val). *)
FromValue(val) ==
    LET r == from_value(val)
    IN  /\ last' = [ op |-> "from_value", val |-> <<val>>, tv |-> <<>>,
                     panicked |-> r.panicked, ret_tv |-> r.ret, ret_val |-> <<>> ]
        /\ unwound' = (unwound \/ r.panicked)
        /\ UNCHANGED flags

(* A call self.as_value(). *)
AsValue(self) ==
    /\ last' = [ op |-> "as_value", val |-> <<>>, tv |-> <<self>>,
                 panicked |-> FALSE, ret_tv |-> <<>>, ret_val |-> <<as_value(self)>> ]
    /\ UNCHANGED << flags, unwound >>

(* The typed values a caller can hold over the present heap: a case of one  *)
(* category around a handle from_value puts in that category, the Range,   *)
(* Enumerator and Value cases around any handle, and the unit cases.       *)
Held ==
    { tv \in TypedValue :
        \/ tv.case \in { "Range", "Enumerator", "Value" } \cup UnitCases
        \/ from_value(repr_as_value(tv.payload[1])) = Return(tv) }

Next ==
    \/ \E val \in Value : FromValue(val)
    \/ \E self \in Held : AsValue(self)

Spec == Init /\ [][Next]_vars

(***************************************************************************)
(* Properties.                                                             *)
(***************************************************************************)
CalledFromValue == last.op = "from_value"

CalledAsValue == last.op = "as_value"

Returned == CalledFromValue /\ ~last.panicked

(* The tags that have a typed wrapper of their own category, with the case *)
(* and the wrapper type of that category.                                  *)
CategoryOf ==
    [ RUBY_T_OBJECT |-> "Object", RUBY_T_CLASS |-> "Class", RUBY_T_MODULE |-> "Module",
      RUBY_T_FLOAT |-> "Float", RUBY_T_STRING |-> "String", RUBY_T_REGEXP |-> "Regexp",
      RUBY_T_ARRAY |-> "Array", RUBY_T_HASH |-> "Hash", RUBY_T_STRUCT |-> "Struct",
      RUBY_T_FILE |-> "File", RUBY_T_DATA |-> "TypedData", RUBY_T_MATCH |-> "Match",
      RUBY_T_COMPLEX |-> "Complex", RUBY_T_RATIONAL |-> "Rational",
      RUBY_T_SYMBOL |-> "Symbol" ]

IntegerTags == { "RUBY_T_FIXNUM", "RUBY_T_BIGNUM" }

InternalTags ==
    { "RUBY_T_UNDEF", "RUBY_T_IMEMO", "RUBY_T_NODE", "RUBY_T_ICLASS",
      "RUBY_T_ZOMBIE", "RUBY_T_MOVED", "RUBY_T_MASK" }

(* C1: round trip.  For every handle whose tag is not RUBY_T_NONE,         *)
(* from_value returns, and as_value of what it returns is the handle       *)
(* itself; so it is for the handle of the last from_value call and what    *)
(* that call returned.                                                     *)
C1_RoundTrip ==
    /\ \A h \in Value :
         rb_type(h) # "RUBY_T_NONE" =>
            /\ ~from_value(h).panicked
            /\ as_value(from_value(h).ret[1]) = h
    /\ (CalledFromValue /\ rb_type(last.val[1]) # "RUBY_T_NONE") =>
            /\ Returned
            /\ as_value(last.ret_tv[1]) = last.val[1]

(* A from_value call on a handle tagged RUBY_T_TRUE returned: the case     *)
(* where as_value rebuilds the handle from qtrue().                        *)
C1_Witness ==
    /\ Returned
    /\ rb_type(last.val[1]) = "RUBY_T_TRUE"
    /\ last.ret_tv[1].payload = <<>>

(* C2: fatal-path isolation.  A from_value call panics exactly when the    *)
(* handle's tag is RUBY_T_NONE, and a call that panics returns no case.    *)
C2_FatalPathIsolation ==
    CalledFromValue =>
        /\ last.panicked <=> (rb_type(last.val[1]) = "RUBY_T_NONE")
        /\ last.panicked => last.ret_tv = <<>>
        /\ ~last.panicked => Len(last.ret_tv) = 1

C2_Witness ==
    /\ CalledFromValue
    /\ rb_type(last.val[1]) = "RUBY_T_NONE"
    /\ last.panicked

(* C3: tag-to-case correspondence.  On a handle whose tag has a typed      *)
(* wrapper, from_value returns the case of that category, whose payload is *)
(* the wrapper of that category around the input handle.                   *)
C3_TagToCase ==
    (CalledFromValue /\ rb_type(last.val[1]) \in DOMAIN CategoryOf) =>
        LET c == CategoryOf[rb_type(last.val[1])]
        IN  /\ Returned
            /\ last.ret_tv[1].case = c
            /\ last.ret_tv[1].case # "Value"
            /\ last.ret_tv[1].payload = << [ ty |-> WrapperOf[c], value |-> last.val[1] ] >>

C3_Witness ==
    /\ Returned
    /\ rb_type(last.val[1]) = "RUBY_T_STRING"
    /\ last.ret_tv[1].case = "String"

(* C4: singleton correctness.  from_value on qtrue, qfalse, qnil returns   *)
(* True, False, Nil, which carry no payload; as_value on True, False, Nil  *)
(* returns qtrue, qfalse, qnil.                                            *)
C4_Singletons ==
    /\ (CalledFromValue /\ last.val[1] = qtrue) => (Returned /\ last.ret_tv[1] = SelfUnit("True"))
    /\ (CalledFromValue /\ last.val[1] = qfalse) => (Returned /\ last.ret_tv[1] = SelfUnit("False"))
    /\ (CalledFromValue /\ last.val[1] = qnil) => (Returned /\ last.ret_tv[1] = SelfUnit("Nil"))
    /\ (Returned /\ last.ret_tv[1].case \in UnitCases) => last.ret_tv[1].payload = <<>>
    /\ (CalledAsValue /\ last.tv[1].case = "True") => last.ret_val = <<qtrue>>
    /\ (CalledAsValue /\ last.tv[1].case = "False") => last.ret_val = <<qfalse>>
    /\ (CalledAsValue /\ last.tv[1].case = "Nil") => last.ret_val = <<qnil>>

C4_Witness ==
    /\ CalledAsValue
    /\ last.tv[1].case = "Nil"
    /\ last.ret_val = <<qnil>>

(* C5: catch-all containment.  On a handle with an internal or transient   *)
(* tag (RUBY_T_UNDEF among them) from_value returns the Value case holding *)
(* the input handle, and as_value on a Value case returns the handle it    *)
(* holds.                                                                  *)
C5_CatchAll ==
    /\ (CalledFromValue /\ rb_type(last.val[1]) \in InternalTags) =>
            /\ Returned
            /\ last.ret_tv[1] = [ case |-> "Value", payload |-> last.val ]
            /\ as_value(last.ret_tv[1]) = last.val[1]
    /\ (CalledAsValue /\ last.tv[1].case = "Value") => last.ret_val = last.tv[1].payload

C5_Witness ==
    /\ Returned
    /\ rb_type(last.val[1]) = "RUBY_T_UNDEF"
    /\ last.ret_tv[1].case = "Value"

(* C6: numeric subcategory collapse.  from_value returns the Integer case  *)
(* exactly on the handles tagged RUBY_T_FIXNUM or RUBY_T_BIGNUM, with the  *)
(* same wrapper type for both; and two handles with different tags that    *)
(* have typed wrappers get the same case only if the tags are these two.   *)
C6_NumericCollapse ==
    /\ Returned =>
         /\ (last.ret_tv[1].case = "Integer") <=> (rb_type(last.val[1]) \in IntegerTags)
         /\ last.ret_tv[1].case = "Integer" =>
                last.ret_tv[1].payload = << [ ty |-> "Integer", value |-> last.val[1] ] >>
    /\ \A h1, h2 \in Value :
         ( /\ rb_type(h1) \in DOMAIN CategoryOf \cup IntegerTags
           /\ rb_type(h2) \in DOMAIN CategoryOf \cup IntegerTags
           /\ rb_type(h1) # rb_type(h2)
           /\ from_value(h1).ret[1].case = from_value(h2).ret[1].case )
         => { rb_type(h1), rb_type(h2) } = IntegerTags

C6_Witness ==
    /\ Returned
    /\ rb_type(last.val[1]) = "RUBY_T_BIGNUM"
    /\ last.ret_tv[1].case = "Integer"
    /\ \E h \in Value : rb_type(h) = "RUBY_T_FIXNUM" /\ from_value(h).ret[1].case = "Integer"

(* C7 as stated: on a handle of any tag in ruby_value_type, from_value     *)
(* returns exactly one case.                                               *)
C7_AsStated ==
    (CalledFromValue /\ rb_type(last.val[1]) \in ruby_value_type) =>
        /\ ~last.panicked
        /\ Len(last.ret_tv) = 1
        /\ last.ret_tv[1].case \in Cases

(* C7: exhaustiveness.  On a handle of any tag in ruby_value_type other    *)
(* than RUBY_T_NONE, from_value returns exactly one case of TypedValue; on *)
(* RUBY_T_NONE it panics and returns none.  No tag is left unmatched.      *)
C7_Exhaustive ==
    /\ \A h \in Value : rb_type(h) \in ruby_value_type
    /\ (CalledFromValue /\ rb_type(last.val[1]) # "RUBY_T_NONE") =>
            /\ ~last.panicked
            /\ Len(last.ret_tv) = 1
            /\ last.ret_tv[1] \in TypedValue
    /\ (CalledFromValue /\ rb_type(last.val[1]) = "RUBY_T_NONE") =>
            /\ last.panicked
            /\ Len(last.ret_tv) = 0

C7_Witness ==
    /\ Returned
    /\ rb_type(last.val[1]) = "RUBY_T_MASK"
    /\ Len(last.ret_tv) = 1

(* C8: the reverse conversion is total.  as_value on any TypedValue value  *)
(* returns a handle: the one the payload wraps for a payload case (Range,  *)
(* Enumerator and Value among them), the canonical constant for True,      *)
(* False and Nil.                                                          *)
C8_AsValueTotal ==
    CalledAsValue =>
        LET self == last.tv[1]
        IN  /\ Len(last.ret_val) = 1
            /\ last.ret_val[1] \in Value
            /\ self.case \in WrapperCases => last.ret_val[1] = self.payload[1].value
            /\ self.case = "Value" => last.ret_val[1] = self.payload[1]
            /\ self.case = "True" => last.ret_val[1].rb = Qtrue
            /\ self.case = "False" => last.ret_val[1].rb = Qfalse
            /\ self.case = "Nil" => last.ret_val[1].rb = Qnil

C8_Witness ==
    /\ CalledAsValue
    /\ last.tv[1].case = "Enumerator"
    /\ last.ret_val = << last.tv[1].payload[1].value >>

(* C9: purity.  No call, a panicking from_value call included, changes the *)
(* host: the heap flags, the tag of every handle and the tags of the       *)
(* canonical handles stay as they were; from_value on the handle just      *)
(* classified gives again what the call returned, and from_value on the    *)
(* handle classified by the call before still gives what that call         *)
(* returned, whatever call came in between.                                *)
C9_Step ==
    /\ flags' = flags
    /\ \A h \in Value : rb_type(h)' = rb_type(h)
    /\ \A h \in Value :
          (last'.op = "from_value" /\ last'.val = <<h>>) =>
              from_value(h)' = [ panicked |-> last'.panicked, ret |-> last'.ret_tv ]
    /\ \A h \in Value :
          (last.op = "from_value" /\ last.val = <<h>>) =>
              from_value(h)' = [ panicked |-> last.panicked, ret |-> last.ret_tv ]

C9_Purity == [][C9_Step]_vars

(* A from_value call returned after an earlier call had panicked. *)
C9_Witness ==
    /\ unwound
    /\ Returned
    /\ from_value(last.val[1]).ret = last.ret_tv

(* C10: from_value never returns the Range or the Enumerator case; the     *)
(* cases it returns over the handles of the host are exactly the other 20  *)
(* cases of TypedValue; as_value accepts Range and Enumerator.             *)
ReturnedCases == { from_value(h).ret[1].case : h \in { v \in Value : ~from_value(v).panicked } }

C10_NeverRangeEnumerator ==
    /\ Returned => last.ret_tv[1].case \notin { "Range", "Enumerator" }
    /\ ReturnedCases = Cases \ { "Range", "Enumerator" }
    /\ Cardinality(Cases) = 22
    /\ Cardinality(ReturnedCases) = 20
    /\ \A c \in { "Range", "Enumerator" }, v \in Value :
          as_value(Self(c, from_rb_value_unchecked(WrapperOf[c], v.rb))) = v

C10_Witness ==
    /\ Returned
    /\ rb_type(last.val[1]) = "RUBY_T_STRUCT"
    /\ last.ret_tv[1].case = "Struct"

====
